---------------------------- MODULE Spec2Model ----------------------------
(***************************************************************************)
(* A model of gtfs-rest: the importer (gtfs_import.py) that loads a GTFS   *)
(* zip archive into an SQLite store, and the query server (gtfs_server.py) *)
(* that answers verb requests over that store.                             *)
(*                                                                         *)
(* The store is modelled as a map from table name to the table's columns   *)
(* and rows (a row is a tuple aligned with the table's columns), plus the  *)
(* set of secondary indexes.  A connection sees the committed store plus   *)
(* the changes of its open transaction.                                    *)
(***************************************************************************)
EXTENDS Integers, Sequences, FiniteSets, TLC

VARIABLES
    pc,         \* importer: position in main()
    archive,    \* importer: the input zip: [status, names, files]
    db,         \* the committed content of the SQLite file
    db0,        \* the content of the SQLite file when this run of the importer started
    conn,       \* importer: its connection [open, inTxn, view]
    tableIdx,   \* importer: index into gtfs_table_pairs / SQL_LIST_CREATE_INDEXES
    rows_read,  \* importer: reader.line_num returned per loaded table
    raised,     \* importer: the uncaught exception that ended main(), or "none"
    result,     \* importer: the value main() returned, or -1 while there is none
    exitCode,   \* importer: the exit status of the process, or -1 while it runs
    run,        \* importer: which run of the program on this store this is
    reqs,       \* server: the requests in flight
    connections \* server: the connections get_db() has made, each "open" or "closed"

importVars == <<pc, archive, db, db0, conn, tableIdx, rows_read, raised, result, exitCode, run>>
vars == <<pc, archive, db, db0, conn, tableIdx, rows_read, raised, result, exitCode, run, reqs, connections>>

-----------------------------------------------------------------------------
(* Bounds of the model *)

\* at most this many table files are left out of an archive
MaxMissing == 1
\* a varied CSV header has at most this many columns
MaxHeaderLen == 3
\* a varied CSV file has at most this many data lines
MaxRows == 2
\* the importer is run at most this many times on one store
MaxRuns == 2

-----------------------------------------------------------------------------
(* Generic helpers *)

Range(s) == {s[i] : i \in 1..Len(s)}

SeqsUpTo(S, n) == UNION {[1..k -> S] : k \in 0..n}

\* list.index(x): position of the first occurrence (1-based here)
IndexOf(s, x) == CHOOSE i \in 1..Len(s) : s[i] = x /\ \A j \in 1..(i-1) : s[j] # x

\* list.remove(x): the list without the first occurrence of x
RemoveFirst(s, x) ==
    LET i == IndexOf(s, x)
    IN  [j \in 1..(Len(s)-1) |-> IF j < i THEN s[j] ELSE s[j+1]]

\* SQL NULL
NULL == <<>>

-----------------------------------------------------------------------------
(* gtfs_import.py: the CREATE TABLE statements.  Each is kept as the ordered *)
(* column list, the NOT NULL columns and the PRIMARY KEY column ("" if none) *)

SQL_CREATE_AGENCY ==
    [columns |-> <<"agency_id", "agency_name", "agency_url", "agency_timezone",
                   "agency_lang", "agency_phone", "agency_fare_url", "agency_email">>,
     notnull |-> {"agency_name", "agency_url", "agency_timezone"},
     pk      |-> ""]

SQL_CREATE_STOPS ==
    [columns |-> <<"stop_id", "stop_code", "stop_name", "stop_desc", "stop_lat",
                   "stop_lon", "zone_id", "stop_url", "location_type",
                   "parent_station", "stop_timezone", "wheelchair_boarding",
                   "level_id", "platform_code">>,
     notnull |-> {"stop_id"},
     pk      |-> "stop_id"]

SQL_CREATE_ROUTES ==
    [columns |-> <<"route_id", "agency_id", "route_short_name", "route_long_name",
                   "route_desc", "route_type", "route_url", "route_color",
                   "route_text_color", "route_sort_order">>,
     notnull |-> {"route_id", "route_type"},
     pk      |-> "route_id"]

SQL_CREATE_TRIPS ==
    [columns |-> <<"route_id", "service_id", "trip_id", "trip_headsign",
                   "trip_short_name", "direction_id", "block_id", "shape_id",
                   "wheelchair_accessible", "bikes_allowed">>,
     notnull |-> {"route_id", "service_id", "trip_id"},
     pk      |-> "trip_id"]

SQL_CREATE_STOP_TIMES ==
    [columns |-> <<"trip_id", "arrival_time", "departure_time", "stop_id",
                   "stop_sequence", "stop_headsign", "pickup_type",
                   "drop_off_type", "shape_dist_traveled", "timepoint">>,
     notnull |-> {"trip_id", "stop_id", "stop_sequence"},
     pk      |-> ""]

SQL_CREATE_CALENDAR ==
    [columns |-> <<"service_id", "monday", "tuesday", "wednesday", "thursday",
                   "friday", "saturday", "sunday", "start_date", "end_date">>,
     notnull |-> {"service_id", "monday", "tuesday", "wednesday", "thursday",
                  "friday", "saturday", "sunday", "start_date", "end_date"},
     pk      |-> ""]

SQL_CREATE_CALENDAR_DATES ==
    [columns |-> <<"service_id", "date", "exception_type">>,
     notnull |-> {"service_id", "date", "exception_type"},
     pk      |-> ""]

SQL_CREATE_FARE_ATTRIBUTES ==
    [columns |-> <<"fare_id", "price", "currency_type", "payment_method",
                   "transfers", "agency_id", "transfer_duration">>,
     notnull |-> {"fare_id", "price", "currency_type", "payment_method", "transfers"},
     pk      |-> "fare_id"]

SQL_CREATE_FARE_RULES ==
    [columns |-> <<"fare_id", "route_id", "origin_id", "destination_id", "contains_id">>,
     notnull |-> {"fare_id"},
     pk      |-> ""]

SQL_CREATE_SHAPES ==
    [columns |-> <<"shape_id", "shape_pt_lat", "shape_pt_lon", "shape_pt_sequence",
                   "shape_dist_traveled">>,
     notnull |-> {"shape_id", "shape_pt_lat", "shape_pt_lon", "shape_pt_sequence"},
     pk      |-> ""]

SQL_CREATE_FREQUENCIES ==
    [columns |-> <<"trip_id", "start_time", "end_time", "headway_secs", "exact_times">>,
     notnull |-> {"trip_id", "start_time", "end_time", "headway_secs"},
     pk      |-> ""]

SQL_CREATE_TRANSFERS ==
    [columns |-> <<"from_stop_id", "to_stop_id", "transfer_type", "min_transfer_time">>,
     notnull |-> {"from_stop_id", "to_stop_id", "transfer_type"},
     pk      |-> ""]

SQL_CREATE_PATHWAYS ==
    [columns |-> <<"pathway_id", "from_stop_id", "to_stop_id", "pathway_mode",
                   "is_bidirectional", "length", "traversal_time", "stair_count",
                   "max_slope", "min_width", "signposted_as",
                   "reversed_signposted_as">>,
     notnull |-> {"pathway_id", "from_stop_id", "to_stop_id", "pathway_mode",
                  "is_bidirectional"},
     pk      |-> ""]

SQL_CREATE_LEVELS ==
    [columns |-> <<"level_id", "level_index", "level_name">>,
     notnull |-> {"level_id", "level_index"},
     pk      |-> "level_id"]

SQL_CREATE_FEED_INFO ==
    [columns |-> <<"feed_publisher_name", "feed_publisher_url", "feed_lang",
                   "feed_start_date", "feed_end_date", "feed_version",
                   "feed_contact_email", "feed_contact_url">>,
     notnull |-> {"feed_publisher_name", "feed_publisher_url", "feed_lang"},
     pk      |-> ""]

\* main(): the (table name, create statement) pairs, in loading order
gtfs_table_pairs ==
    << <<"agency", SQL_CREATE_AGENCY>>,
       <<"stops", SQL_CREATE_STOPS>>,
       <<"routes", SQL_CREATE_ROUTES>>,
       <<"trips", SQL_CREATE_TRIPS>>,
       <<"stop_times", SQL_CREATE_STOP_TIMES>>,
       <<"calendar", SQL_CREATE_CALENDAR>>,
       <<"calendar_dates", SQL_CREATE_CALENDAR_DATES>>,
       <<"fare_attributes", SQL_CREATE_FARE_ATTRIBUTES>>,
       <<"fare_rules", SQL_CREATE_FARE_RULES>>,
       <<"shapes", SQL_CREATE_SHAPES>>,
       <<"frequencies", SQL_CREATE_FREQUENCIES>>,
       <<"transfers", SQL_CREATE_TRANSFERS>>,
       <<"pathways", SQL_CREATE_PATHWAYS>>,
       <<"levels", SQL_CREATE_LEVELS>>,
       <<"feed_info", SQL_CREATE_FEED_INFO>> >>

TableNames == {gtfs_table_pairs[i][1] : i \in 1..Len(gtfs_table_pairs)}

CreateSqlOf(t) ==
    LET i == CHOOSE j \in 1..Len(gtfs_table_pairs) : gtfs_table_pairs[j][1] = t
    IN  gtfs_table_pairs[i][2]

\* main(): table_file = table_name + '.txt'
TableFile(t) == t \o ".txt"

\* a list of required files that forgets the last one
required_gtfs_files_short == <<"agency.txt", "stops.txt", "routes.txt", "trips.txt">>

required_gtfs_files == <<"agency.txt", "stops.txt", "routes.txt", "trips.txt", "stop_times.txt">>

valid_gtfs_files == {TableFile(t) : t \in TableNames}

\* the index statements: name, indexed table
SQL_LIST_CREATE_INDEXES ==
    << [name |-> "stops_index", table |-> "stops"],
       [name |-> "trips_index", table |-> "trips"],
       [name |-> "stop_times_index", table |-> "stop_times"],
       [name |-> "shapes_index", table |-> "shapes"] >>


-----------------------------------------------------------------------------
(* The SQLite store *)

NoTable == [exists |-> FALSE, columns |-> <<>>, notnull |-> {}, pk |-> "", rows |-> <<>>]

\* CREATE TABLE: an empty table with the statement's columns and constraints
NewTable(create_sql) ==
    [exists |-> TRUE, columns |-> create_sql.columns, notnull |-> create_sql.notnull,
     pk |-> create_sql.pk, rows |-> <<>>]

EmptyStore == [tables |-> [t \in TableNames |-> NoTable], indexes |-> {}]

\* a store left by an earlier run of some other version: every table exists
\* with another schema and a stale row, and the four indexes exist
StaleStore ==
    [tables  |-> [t \in TableNames |->
                    [exists |-> TRUE, columns |-> <<"old_column">>, notnull |-> {},
                     pk |-> "", rows |-> << <<"stale">> >>]],
     indexes |-> Range(SQL_LIST_CREATE_INDEXES)]

\* a store left by an earlier import with this version: every table exists
\* with its registry schema and one row, and the four indexes exist
PreviousStore ==
    [tables  |-> [t \in TableNames |->
                    [NewTable(CreateSqlOf(t)) EXCEPT !.rows =
                        << [i \in 1..Len(CreateSqlOf(t).columns) |-> <<"previous", i>>] >>]],
     indexes |-> Range(SQL_LIST_CREATE_INDEXES)]

PriorStores == {EmptyStore, StaleStore, PreviousStore}

\* DROP TABLE IF EXISTS t (SQLite drops the table's indexes with it)
DropTableIfExists(store, t) ==
    [tables  |-> [store.tables EXCEPT ![t] = NoTable],
     indexes |-> {ix \in store.indexes : ix.table # t}]

\* DROP INDEX IF EXISTS name
DropIndexIfExists(store, name) ==
    [store EXCEPT !.indexes = {ix \in store.indexes : ix.name # name}]

-----------------------------------------------------------------------------
(* CSV files.  A file is its sequence of records; the first is the header, *)
(* a sequence of tokens.  A token is a sequence of character runs, each a  *)
(* run of word characters or a run of other characters.  A data cell is    *)
(* <<tag, i>>: the text of the line tagged `tag` at its i-th position.     *)

NonWordRuns == {" ", "-"}

\* re.sub(r'\W+', '', e)
RECURSIVE Sanitize(_)
Sanitize(token) ==
    IF Len(token) = 0 THEN ""
    ELSE IF Head(token) \in NonWordRuns THEN Sanitize(Tail(token))
    ELSE Head(token) \o Sanitize(Tail(token))

RowTags == {"x", "y"}

DataLine(tag, k) == [i \in 1..k |-> <<tag, i>>]

\* the file of a table as a well-formed feed has it: every column, one line
DefaultCsv(t) ==
    LET cols == CreateSqlOf(t).columns
    IN  << [i \in 1..Len(cols) |-> <<cols[i]>>], DataLine("x", Len(cols)) >>

\* header tokens of the varied files of table t: its first column, its second
\* column padded with a blank, and two names the table does not have
Tokens(t) ==
    LET cols == CreateSqlOf(t).columns
    IN  {<<cols[1]>>, <<" ", cols[2]>>, <<"foo">>, <<"bar">>}

\* data lines under a header of n columns: full, or one cell short
DataLines(n) == {DataLine(tag, k) : tag \in RowTags, k \in {n, n - 1}}

VariedCsv(t) ==
    {<<>>} \cup
    UNION {{<<h>> \o lines : lines \in SeqsUpTo(DataLines(Len(h)), MaxRows)} :
           h \in SeqsUpTo(Tokens(t), MaxHeaderLen) \ {<<>>}}

\* the tables whose file content is varied
FocusTables == {"stops"}

ArchivesMembers ==
    {[status |-> "ok", names |-> names,
      files |-> [n \in names \cap valid_gtfs_files |->
                   DefaultCsv(CHOOSE t \in TableNames : TableFile(t) = n)]] :
     names \in {(valid_gtfs_files \ M) \cup X :
                M \in {S \in SUBSET valid_gtfs_files : Cardinality(S) <= MaxMissing},
                X \in SUBSET {"README.txt"}}}

ArchivesContent ==
    {[status |-> "ok", names |-> valid_gtfs_files,
      files |-> [n \in valid_gtfs_files |->
                   IF n = TableFile(f) THEN csv
                   ELSE DefaultCsv(CHOOSE t \in TableNames : TableFile(t) = n)]] :
     <<f, csv>> \in UNION {{<<t, c>> : c \in VariedCsv(t)} : t \in FocusTables}}

\* a file that is not a zip archive, and a path that names no file
ArchivesUnreadable ==
    {[status |-> s, names |-> {}, files |-> <<>>] : s \in {"badzip", "notfound"}}

Archives == ArchivesMembers \cup ArchivesContent \cup ArchivesUnreadable

-----------------------------------------------------------------------------
(* gtfs_import.py: insert_gtfs_table_rows *)

\* the loop "for column in csv_columns: if not column in expected_columns:
\* csv_columns.remove(column)": the list is changed while it is iterated, so
\* the iterator's position i moves on over the shortened list
RECURSIVE RemoveInvalidColumns(_, _, _)
RemoveInvalidColumns(csv_columns, expected_columns, i) ==
    IF i > Len(csv_columns) THEN csv_columns
    ELSE IF csv_columns[i] \notin Range(expected_columns)
         THEN RemoveInvalidColumns(RemoveFirst(csv_columns, csv_columns[i]),
                                   expected_columns, i + 1)
         ELSE RemoveInvalidColumns(csv_columns, expected_columns, i + 1)

\* conn.execute(sql_insert, valid_csv_line) on the table `tbl`:
\* INSERT INTO table (columns) VALUES (?, ...)
SqlInsert(tbl, columns, values) ==
    IF Len(columns) = 0
    THEN [error |-> "OperationalError", table |-> tbl]      \* syntax error near ")"
    ELSE IF \E i \in 1..Len(columns) : columns[i] \notin Range(tbl.columns)
    THEN [error |-> "OperationalError", table |-> tbl]      \* no column named ...
    ELSE
      LET row == [j \in 1..Len(tbl.columns) |->
                    IF tbl.columns[j] \in Range(columns)
                    THEN values[IndexOf(columns, tbl.columns[j])]
                    ELSE NULL]
      IN  IF \E j \in 1..Len(tbl.columns) :
                 tbl.columns[j] \in tbl.notnull /\ row[j] = NULL
          THEN [error |-> "IntegrityError", table |-> tbl]  \* NOT NULL constraint
          ELSE IF tbl.pk # "" /\
                  \E k \in 1..Len(tbl.rows) :
                      tbl.rows[k][IndexOf(tbl.columns, tbl.pk)]
                          = row[IndexOf(tbl.columns, tbl.pk)]
          THEN [error |-> "IntegrityError", table |-> tbl]  \* UNIQUE constraint
          ELSE [error |-> "none", table |-> [tbl EXCEPT !.rows = Append(@, row)]]

\* the loop "for csv_line in reader", from data line k on
RECURSIVE InsertLines(_, _, _, _, _)
InsertLines(tbl, csv_columns, valid_indices, csv, k) ==
    IF k > Len(csv) THEN [error |-> "none", table |-> tbl]
    ELSE
      LET csv_line == csv[k]
      IN  IF \E i \in 1..Len(valid_indices) : valid_indices[i] > Len(csv_line)
          THEN [error |-> "IndexError", table |-> tbl]
          ELSE
            LET valid_csv_line == [i \in 1..Len(valid_indices) |-> csv_line[valid_indices[i]]]
                r == SqlInsert(tbl, csv_columns, valid_csv_line)
            IN  IF r.error # "none" THEN r
                ELSE InsertLines(r.table, csv_columns, valid_indices, csv, k + 1)

\* insert_gtfs_table_rows(zipstream, table_name, conn): the table after the
\* call and the exception it raised, if any
insert_gtfs_table_rows(csv, tbl) ==
    IF Len(csv) = 0
    THEN [error |-> "StopIteration", table |-> tbl]         \* next(reader) on an empty file
    ELSE
      LET expected_columns == tbl.columns
          original_columns == [i \in 1..Len(csv[1]) |-> Sanitize(csv[1][i])]
          csv_columns      == RemoveInvalidColumns(original_columns, expected_columns, 1)
          valid_indices    == [i \in 1..Len(csv_columns) |->
                                 IndexOf(original_columns, csv_columns[i])]
      IN  InsertLines(tbl, csv_columns, valid_indices, csv, 2)

-----------------------------------------------------------------------------
(* gtfs_import.py: main(), one action per step *)

NoRequests == <<>>

ImportInit ==
    /\ pc = "start"
    /\ archive \in Archives
    /\ db \in PriorStores
    /\ db0 = db
    /\ conn = [open |-> FALSE, inTxn |-> FALSE, view |-> EmptyStore]
    /\ tableIdx = 0
    /\ rows_read = [t \in TableNames |-> -1]
    /\ raised = "none"
    /\ result = -1
    /\ exitCode = -1
    /\ run = 1
    /\ reqs = NoRequests
    /\ connections = <<>>

\* a DDL statement through the connection: outside a transaction the sqlite3
\* module runs it in autocommit mode, inside one it is part of the transaction
ExecuteDDL(newView) ==
    /\ conn' = [conn EXCEPT !.view = newView]
    /\ db' = IF conn.inTxn THEN db ELSE newView

\* conn = db.connect(args.output_file)
Connect ==
    /\ pc = "start"
    /\ conn' = [open |-> TRUE, inTxn |-> FALSE, view |-> db]
    /\ pc' = "open_archive"
    /\ UNCHANGED <<archive, db, db0, tableIdx, rows_read, raised, result, exitCode, reqs, run, connections>>

\* gtfs_zip = zipfile.ZipFile(args.input_file); BadZipFile is caught and main
\* returns 1, any other error (no such file) is not caught
OpenArchive ==
    /\ pc = "open_archive"
    /\ \/ /\ archive.status = "ok"
          /\ pc' = "validate"
          /\ UNCHANGED <<raised, result>>
       \/ /\ archive.status = "badzip"
          /\ result' = 1
          /\ pc' = "returned"
          /\ UNCHANGED raised
       \/ /\ archive.status = "notfound"
          /\ raised' = "FileNotFoundError"
          /\ pc' = "raised"
          /\ UNCHANGED result
    /\ UNCHANGED <<archive, db, db0, conn, tableIdx, rows_read, exitCode, reqs, run, connections>>

\* "Are the minimum-required files present? If not, abort"; unknown files in
\* the archive only print a warning
CheckRequiredFiles ==
    /\ pc = "validate"
    /\ \/ /\ \E i \in 1..Len(required_gtfs_files) : required_gtfs_files[i] \notin archive.names
          /\ result' = 1
          /\ pc' = "returned"
          /\ UNCHANGED tableIdx
       \/ /\ \A i \in 1..Len(required_gtfs_files) : required_gtfs_files[i] \in archive.names
          /\ tableIdx' = 1
          /\ pc' = "create_table"
          /\ UNCHANGED result
    /\ UNCHANGED <<archive, db, db0, conn, rows_read, raised, exitCode, reqs, run, connections>>

\* a create_gtfs_table that keeps a table that is already there
create_gtfs_table_keep(store, table_name, create_sql) ==
    IF store.tables[table_name].exists THEN store
    ELSE [store EXCEPT !.tables[table_name] = NewTable(create_sql)]

\* create_gtfs_table(table_name, create_sql, conn)
create_gtfs_table(store, table_name, create_sql) ==
    [DropTableIfExists(store, table_name) EXCEPT !.tables[table_name] = NewTable(create_sql)]

\* the position after the body of "for pair in gtfs_table_pairs" for pair i
AfterTable(i) ==
    IF i < Len(gtfs_table_pairs)
    THEN pc' = "create_table" /\ tableIdx' = i + 1
    ELSE pc' = "create_index" /\ tableIdx' = 1

\* loop body, first half: create the table; go on to its file if the archive
\* has one
CreateTable ==
    /\ pc = "create_table"
    /\ LET table_name == gtfs_table_pairs[tableIdx][1]
           create_sql == gtfs_table_pairs[tableIdx][2]
       IN  /\ ExecuteDDL(create_gtfs_table(conn.view, table_name, create_sql))
           /\ IF TableFile(table_name) \in archive.names
              THEN pc' = "insert_rows" /\ UNCHANGED tableIdx
              ELSE AfterTable(tableIdx)
    /\ UNCHANGED <<archive, db0, rows_read, raised, result, exitCode, reqs, run, connections>>

\* loop body, second half: insert_rows_from_zip.  The first INSERT opens the
\* transaction that only conn.commit() ends.
InsertRows ==
    /\ pc = "insert_rows"
    /\ LET table_name == gtfs_table_pairs[tableIdx][1]
           csv == archive.files[TableFile(table_name)]
           r   == insert_gtfs_table_rows(csv, conn.view.tables[table_name])
           \* an INSERT got as far as running: the module issued BEGIN before it
           executed == r.table.rows # <<>> \/ r.error = "IntegrityError"
       IN  /\ conn' = [conn EXCEPT !.view.tables[table_name] = r.table,
                                   !.inTxn = @ \/ executed]
           /\ \/ /\ r.error = "none"
                 /\ rows_read' = [rows_read EXCEPT ![table_name] = Len(csv)]
                 /\ AfterTable(tableIdx)
                 /\ UNCHANGED raised
              \/ /\ r.error # "none"
                 /\ raised' = r.error
                 /\ pc' = "raised"
                 /\ UNCHANGED <<rows_read, tableIdx>>
    /\ UNCHANGED <<archive, db, db0, result, exitCode, reqs, run, connections>>

\* create_index(index_name, create_sql, conn)
create_index(store, ix) ==
    [DropIndexIfExists(store, ix.name) EXCEPT !.indexes = @ \cup {ix}]

\* "for (index_name, crete_sql) in SQL_LIST_CREATE_INDEXES"
CreateIndex ==
    /\ pc = "create_index"
    /\ ExecuteDDL(create_index(conn.view, SQL_LIST_CREATE_INDEXES[tableIdx]))
    /\ IF tableIdx < Len(SQL_LIST_CREATE_INDEXES)
       THEN tableIdx' = tableIdx + 1 /\ pc' = "create_index"
       ELSE tableIdx' = 0 /\ pc' = "cleanup"
    /\ UNCHANGED <<archive, db0, rows_read, raised, result, exitCode, reqs, run, connections>>

\* gtfs_zip.close(); conn.commit(); conn.close(); return 0
Cleanup ==
    /\ pc = "cleanup"
    /\ db' = conn.view
    /\ conn' = [conn EXCEPT !.open = FALSE, !.inTxn = FALSE]
    /\ result' = 0
    /\ pc' = "returned"
    /\ UNCHANGED <<archive, db0, tableIdx, rows_read, raised, exitCode, reqs, run, connections>>

\* "if __name__ == '__main__': main()": the value main() returns is dropped,
\* so the interpreter ends with status 0 unless an exception escaped; a
\* connection still open is closed and its transaction rolled back
ProcessExit ==
    /\ pc \in {"returned", "raised"}
    /\ exitCode' = IF pc = "raised" THEN 1 ELSE 0
    /\ conn' = [open |-> FALSE, inTxn |-> FALSE, view |-> db]
    /\ pc' = "exited"
    /\ UNCHANGED <<archive, db, db0, tableIdx, rows_read, raised, result, reqs, run, connections>>

\* the program is started once more on the same archive and store: a new
\* process, whose main() starts from what the previous run left in the file
RunAgain ==
    /\ pc = "exited"
    /\ run < MaxRuns
    /\ run' = run + 1
    /\ pc' = "start"
    /\ db0' = db
    /\ tableIdx' = 0
    /\ rows_read' = [t \in TableNames |-> -1]
    /\ raised' = "none"
    /\ result' = -1
    /\ exitCode' = -1
    /\ UNCHANGED <<archive, db, conn, reqs, connections>>

ImportNext ==
    \/ Connect
    \/ OpenArchive
    \/ CheckRequiredFiles
    \/ CreateTable
    \/ InsertRows
    \/ CreateIndex
    \/ Cleanup
    \/ ProcessExit
    \/ RunAgain

SpecImport == ImportInit /\ [][ImportNext]_vars

-----------------------------------------------------------------------------
(* Properties of the importer *)

MandatoryTables == {"agency", "stops", "routes", "trips", "stop_times"}

MandatoryPresent == \A t \in MandatoryTables : TableFile(t) \in archive.names

\* what a reader of the store sees: the importer's own view while it runs
CurrentView == IF conn.open THEN conn.view ELSE db

\* the file without the columns whose sanitized header is not a column of tbl
KnownPositions(csv, tbl) ==
    {i \in 1..Len(csv[1]) : Sanitize(csv[1][i]) \in Range(tbl.columns)}

RECURSIVE Project(_, _, _)
Project(line, keep, i) ==
    IF i > Len(line) THEN <<>>
    ELSE (IF i \in keep THEN <<line[i]>> ELSE <<>>) \o Project(line, keep, i + 1)

ProjectCsv(csv, tbl) ==
    [k \in 1..Len(csv) |-> Project(csv[k], KnownPositions(csv, tbl), 1)]

\* a file that is a header and data lines no shorter than the header, and
\* that loads without error once its unknown columns are taken out
LoadsWithoutUnknownColumns(t) ==
    LET csv == archive.files[TableFile(t)]
        tbl == NewTable(CreateSqlOf(t))
    IN  /\ Len(csv) > 0
        /\ \A k \in 2..Len(csv) : Len(csv[k]) >= Len(csv[1])
        /\ insert_gtfs_table_rows(ProjectCsv(csv, tbl), tbl).error = "none"

\* the loader has finished with table t, or was stopped in it
LoaderLeft(t) ==
    \/ rows_read[t] # -1
    \/ pc \in {"raised", "exited"} /\ tableIdx > 0 /\ raised # "none"
         /\ raised # "FileNotFoundError" /\ gtfs_table_pairs[tableIdx][1] = t

\* C3: with a mandatory file absent from a readable archive the importer never
\* reaches the table loop, ends with result 1, and the store (the committed
\* content and what the connection sees) is the one the run started with
C3_MissingMandatoryAborts ==
    (archive.status = "ok" /\ ~MandatoryPresent) =>
        /\ db = db0
        /\ conn.open => conn.view = db0
        /\ pc \notin {"create_table", "insert_rows", "create_index", "cleanup", "raised"}
        /\ pc \in {"returned", "exited"} => result = 1

C3_Witness ==
    /\ archive.status = "ok" /\ ~MandatoryPresent
    /\ pc = "exited" /\ result = 1
    /\ db0 = StaleStore /\ db = db0

\* C4 (the claim as stated): the process exit code is 0 when the import
\* succeeds and 1 when the archive cannot be opened or a mandatory file is
\* missing
C4_ExitCode ==
    pc = "exited" =>
        /\ result = 0 => exitCode = 0
        /\ (archive.status # "ok" \/ ~MandatoryPresent) => exitCode = 1

\* C5: after a successful import every table whose file is absent from the
\* archive exists with its registry schema and no rows, whatever was there
C5_AbsentOptionalTableEmpty ==
    (pc \in {"returned", "exited"} /\ result = 0) =>
        \A t \in TableNames \ MandatoryTables :
            TableFile(t) \notin archive.names => db.tables[t] = NewTable(CreateSqlOf(t))

C5_Witness ==
    /\ pc = "exited" /\ result = 0
    /\ db0 \in {StaleStore, PreviousStore}
    /\ \E t \in TableNames \ MandatoryTables :
          /\ TableFile(t) \notin archive.names
          /\ db0.tables[t].rows # <<>>
          /\ db.tables[t] = NewTable(CreateSqlOf(t))

\* C6 (the claim as stated): whatever unknown columns a file's header has,
\* loading the table is not aborted and leaves the rows that the file without
\* those columns gives: one per data line, each recognized column holding the
\* value at its header position
C6_UnknownColumnsDropped ==
    \A t \in TableNames :
        (archive.status = "ok" /\ TableFile(t) \in archive.names
            /\ LoaderLeft(t) /\ LoadsWithoutUnknownColumns(t)) =>
        LET csv == archive.files[TableFile(t)]
            tbl == NewTable(CreateSqlOf(t))
        IN  /\ rows_read[t] # -1
            /\ CurrentView.tables[t] = insert_gtfs_table_rows(ProjectCsv(csv, tbl), tbl).table
            /\ Len(CurrentView.tables[t].rows) = Len(csv) - 1

\* C7 (the claim as stated, for archives whose files are headers with full
\* data lines that the schema accepts): with the five mandatory files
\* present the import ends with commit and result 0, and every mandatory
\* table has as many rows as its file has lines after the header
C7_MandatoryRowCounts ==
    (/\ pc = "exited" /\ archive.status = "ok" /\ MandatoryPresent
     /\ \A t \in TableNames :
           TableFile(t) \in archive.names => LoadsWithoutUnknownColumns(t)) =>
        /\ result = 0
        /\ \A t \in MandatoryTables :
              Len(db.tables[t].rows) = Len(archive.files[TableFile(t)]) - 1

-----------------------------------------------------------------------------
(* gtfs_server.py: request parameters.  The text of a parameter is a        *)
(* sequence of characters.                                                  *)

Digits == <<"0", "1", "2", "3", "4", "5", "6", "7", "8", "9">>

IsDigit(c) == c \in Range(Digits)

DigitValue(c) == IndexOf(Digits, c) - 1

\* the number a run of decimal digits writes
RECURSIVE DigitsValue(_)
DigitsValue(s) ==
    IF Len(s) = 0 THEN 0
    ELSE 10 * DigitsValue(SubSeq(s, 1, Len(s) - 1)) + DigitValue(s[Len(s)])

AllDigits(s) == Len(s) > 0 /\ \A i \in 1..Len(s) : IsDigit(s[i])

\* str.strip() for blanks
RECURSIVE Strip(_)
Strip(s) ==
    IF Len(s) > 0 /\ s[1] = " " THEN Strip(Tail(s))
    ELSE IF Len(s) > 0 /\ s[Len(s)] = " " THEN Strip(SubSeq(s, 1, Len(s) - 1))
    ELSE s

\* int(text) and float(text) on texts made of blanks, a sign and decimal
\* digits: the number, or ValueError.  (The model has whole numbers only.)
ParseNumber(text) ==
    LET t    == Strip(text)
        neg  == Len(t) > 0 /\ t[1] = "-"
        body == IF Len(t) > 0 /\ t[1] \in {"-", "+"} THEN Tail(t) ELSE t
    IN  IF AllDigits(body)
        THEN [ok |-> TRUE, value |-> IF neg THEN 0 - DigitsValue(body) ELSE DigitsValue(body)]
        ELSE [ok |-> FALSE, value |-> 0]

\* app.config['MAX_PAGE_SIZE']
MAX_PAGE_SIZE == 100

\* the default of the count parameter
DefaultCount == 25

\* float("+inf") as an upper bound
Unbounded == [inf |-> TRUE, v |-> 0]

Bounded(n) == [inf |-> FALSE, v |-> n]

Max(a, b) == IF a >= b THEN a ELSE b

Min(a, b) == IF a <= b THEN a ELSE b

\* a default given to get_param_numeric: a number, or None
NoDefault == [none |-> TRUE, v |-> 0]

Default(n) == [none |-> FALSE, v |-> n]

\* get_param_numeric(key, type_fn, lower, upper, default): the value clamped
\* into [lower, upper], or ParamError when type_fn raises ValueError (the text
\* is no number) or TypeError (no text and the default is None)
get_param_numeric(args, key, lower, upper, default) ==
    LET clamp(value) == Max(lower, IF upper.inf THEN value ELSE Min(value, upper.v))
    IN  IF key \in DOMAIN args
        THEN LET p == ParseNumber(args[key])
             IN  IF p.ok THEN [ok |-> TRUE, value |-> clamp(p.value)]
                 ELSE [ok |-> FALSE, value |-> 0]
        ELSE IF default.none THEN [ok |-> FALSE, value |-> 0]
        ELSE [ok |-> TRUE, value |-> clamp(default.v)]

\* get_list_params(): (count, page), or ParamError
get_list_params(args) ==
    LET count == get_param_numeric(args, "count", 0, Bounded(MAX_PAGE_SIZE), Default(DefaultCount))
        page  == get_param_numeric(args, "page", 0, Unbounded, Default(0))
    IN  [ok |-> count.ok /\ page.ok, count |-> count.value, page |-> page.value]

\* get_locate_params(): (high_lat, low_lat, high_lon, low_lon), or ParamError
get_locate_params(args) ==
    LET high_lat == get_param_numeric(args, "high_lat", -90, Bounded(90), NoDefault)
        low_lat  == get_param_numeric(args, "low_lat", -90, Bounded(90), NoDefault)
        high_lon == get_param_numeric(args, "high_lon", -180, Bounded(180), NoDefault)
        low_lon  == get_param_numeric(args, "low_lon", -180, Bounded(180), NoDefault)
    IN  [ok |-> high_lat.ok /\ low_lat.ok /\ high_lon.ok /\ low_lon.ok,
         high_lat |-> high_lat.value, low_lat |-> low_lat.value,
         high_lon |-> high_lon.value, low_lon |-> low_lon.value]

-----------------------------------------------------------------------------
(* gtfs_server.py: API definitions *)

\* gtfs tables and their supported API verbs
VERBS ==
    [agency          |-> {"id", "list"},
     stops           |-> {"id", "list", "find", "locate"},
     routes          |-> {"id", "list", "find"},
     trips           |-> {"id"},
     stop_times      |-> {"list", "find", "schedule"},
     calendar        |-> {"fetch"},
     calendar_dates  |-> {"fetch"},
     fare_attributes |-> {"id", "list"},
     fare_rules      |-> {"list"},
     shapes          |-> {"list", "find"},
     frequencies     |-> {"list"},
     transfers       |-> {"list"},
     pathways        |-> {"id", "list"},
     levels          |-> {"id", "list"},
     feed_info       |-> {"fetch"}]

TABLES == DOMAIN VERBS

\* the columns to search for tables that support find
SEARCH_FIELDS ==
    [stops      |-> <<"stop_name", "stop_desc">>,
     routes     |-> <<"route_desc", "route_long_name", "route_short_name">>,
     stop_times |-> <<"stop_headsign">>,
     shapes     |-> <<"shape_id">>]

\* class Error
NO_TABLE == "Table does not exist"

NO_VERB == "Verb not supported"

NO_PARAM(param) == "Missing required parameter: " \o param

INVALID_PARAM == "Invalid parameter value"

-----------------------------------------------------------------------------
(* gtfs_server.py: queries.  A text value of a served store is a sequence  *)
(* of characters, like the text of a request parameter; dates, flags and   *)
(* coordinates are numbers (the columns' NUMERIC, INTEGER and REAL         *)
(* affinity).                                                              *)

\* the value of column `name` in a row of table tbl
Col(tbl, row, name) == row[IndexOf(tbl.columns, name)]

\* the characters of the model's texts, in code point order
CharOrder ==
    <<" ", "%", "-", "0", "1", "2", "3", "4", "5", "6", "7", "8", "9", ":",
      "A", "M", "N", "O", "R", "S", "T", "_", "a", "b", "c", "d", "e", "h",
      "i", "k", "m", "n", "o", "r", "s", "t", "u", "v", "x">>

\* binary collation of two texts
TextLess(a, b) ==
    \E i \in 1..(Min(Len(a), Len(b)) + 1) :
        /\ \A j \in 1..(i - 1) : a[j] = b[j]
        /\ \/ i > Len(a) /\ i <= Len(b)
           \/ i <= Len(a) /\ i <= Len(b)
                /\ IndexOf(CharOrder, a[i]) < IndexOf(CharOrder, b[i])

\* two rows' ORDER BY terms (texts), compared term by term
KeyLess(k1, k2) ==
    \E c \in 1..Len(k1) :
        /\ \A j \in 1..(c - 1) : k1[j] = k2[j]
        /\ TextLess(k1[c], k2[c])

\* ORDER BY: the rows sorted by their ORDER BY terms (keys[i] are the terms
\* of rows[i]), rows that tie in stored order
OrderBy(rows, keys) ==
    LET n == Len(rows)
        rank(j) == 1 + Cardinality({i \in 1..n :
                        \/ KeyLess(keys[i], keys[j])
                        \/ ~KeyLess(keys[j], keys[i]) /\ i < j})
    IN  [p \in 1..n |-> rows[CHOOSE j \in 1..n : rank(j) = p]]

\* SELECT DISTINCT: the first occurrence of every row
RECURSIVE Distinct(_)
Distinct(rows) ==
    IF Len(rows) = 0 THEN <<>>
    ELSE LET front == Distinct(SubSeq(rows, 1, Len(rows) - 1))
             last  == rows[Len(rows)]
         IN  IF last \in Range(front) THEN front ELSE Append(front, last)

\* LIKE is case-insensitive for the letters A-Z
Lower(c) ==
    CASE c = "A" -> "a" [] c = "M" -> "m" [] c = "N" -> "n" [] c = "O" -> "o"
      [] c = "R" -> "r" [] c = "S" -> "s" [] c = "T" -> "t" [] OTHER -> c

\* text LIKE pattern: % matches any run of characters, _ any one character
RECURSIVE Like(_, _)
Like(text, pattern) ==
    IF Len(pattern) = 0 THEN Len(text) = 0
    ELSE IF pattern[1] = "%"
    THEN \E k \in 0..Len(text) : Like(SubSeq(text, k + 1, Len(text)), Tail(pattern))
    ELSE /\ Len(text) > 0
         /\ pattern[1] = "_" \/ Lower(pattern[1]) = Lower(text[1])
         /\ Like(Tail(text), Tail(pattern))

\* LIMIT :limit OFFSET :offset (a negative limit is no limit)
LimitOffset(rows, limit, offset) ==
    LET from == Max(offset, 0) + 1
        to   == IF limit < 0 THEN Len(rows) ELSE Min(Len(rows), Max(offset, 0) + limit)
    IN  SubSeq(rows, from, to)

\* responses
JsonList(rows) == [kind |-> "json", error |-> "", rows |-> rows]

JsonObject(row) == [kind |-> "json_object", error |-> "", rows |-> <<row>>]

\* handle_error: error_json_response(str(error)) for APIError and ParamError
handle_error(message) == [kind |-> "error", error |-> message, rows |-> <<>>]

\* the framework's answer to a URL no rule matches
NotFound == [kind |-> "not_found", error |-> "404 Not Found", rows |-> <<>>]

\* the framework's answer to any other exception
ServerError(exception) == [kind |-> "server_error", error |-> exception, rows |-> <<>>]

NoResponse == [kind |-> "none", error |-> "", rows |-> <<>>]

\* an executed statement: its text, the table put into it, the bound values
Statement(sql, table, params) == [sql |-> sql, table |-> table, params |-> params]

\* what a handler did: its response and the statements sql_query executed
Outcome(response, executed) == [response |-> response, executed |-> executed]

-----------------------------------------------------------------------------
(* gtfs_server.py: the generic routes *)

\* a route_list that counts the rows of the table, as route_table does,
\* before it reads count and page
route_list_count_first(table, args, store) ==
    IF table \notin TABLES THEN Outcome(handle_error(NO_TABLE), <<>>)
    ELSE IF "list" \notin VERBS[table] THEN Outcome(handle_error(NO_VERB), <<>>)
    ELSE
      LET counted == Statement("SELECT MAX(_ROWID_) AS row_count FROM {table}", table, <<>>)
          lp == get_list_params(args)
      IN  IF ~lp.ok THEN Outcome(handle_error(INVALID_PARAM), <<counted>>)
          ELSE
            LET params == [limit |-> lp.count, offset |-> lp.page * lp.count]
            IN  Outcome(JsonList(LimitOffset(store.tables[table].rows,
                                             params.limit, params.offset)),
                        <<counted,
                          Statement("SELECT * FROM {table} LIMIT :limit OFFSET :offset",
                                    table, params)>>)

\* route_list(table)
route_list(table, args, store) ==
    IF table \notin TABLES THEN Outcome(handle_error(NO_TABLE), <<>>)
    ELSE IF "list" \notin VERBS[table] THEN Outcome(handle_error(NO_VERB), <<>>)
    ELSE
      LET lp == get_list_params(args)
      IN  IF ~lp.ok THEN Outcome(handle_error(INVALID_PARAM), <<>>)
          ELSE
            LET params == [limit |-> lp.count, offset |-> lp.page * lp.count]
            IN  Outcome(JsonList(LimitOffset(store.tables[table].rows,
                                             params.limit, params.offset)),
                        <<Statement("SELECT * FROM {table} LIMIT :limit OFFSET :offset",
                                    table, params)>>)

\* the named placeholders of route_find's statement, and the keys of the
\* dictionary it binds
FindPlaceholders == {"search", "limit", "page"}

FindParamKeys == {"limit", "offset", "search"}

\* route_find(table, search): cursor.execute raises ProgrammingError when a
\* named placeholder has no value in params, before the statement runs
route_find(table, search, args, store) ==
    IF table \notin TABLES THEN Outcome(handle_error(NO_TABLE), <<>>)
    ELSE IF "find" \notin VERBS[table] THEN Outcome(handle_error(NO_VERB), <<>>)
    ELSE
      LET lp == get_list_params(args)
      IN  IF ~lp.ok THEN Outcome(handle_error(INVALID_PARAM), <<>>)
          ELSE IF ~(FindPlaceholders \subseteq FindParamKeys)
          THEN Outcome(ServerError("ProgrammingError"), <<>>)
          ELSE
            LET params == [limit |-> lp.count, offset |-> lp.page * lp.count,
                           search |-> search]
                tbl    == store.tables[table]
                \* {sf} LIKE '%'||:search||'%', ORed over the search fields
                hit(row) == \E i \in 1..Len(SEARCH_FIELDS[table]) :
                                Like(Col(tbl, row, SEARCH_FIELDS[table][i]),
                                     <<"%">> \o search \o <<"%">>)
            IN  Outcome(JsonList(LimitOffset(SelectSeq(tbl.rows, hit),
                                             params.limit, params.offset)),
                        <<Statement("SELECT * FROM {table} WHERE {where_clause} LIMIT :limit OFFSET :page",
                                    table, params)>>)

\* table.rstrip('s'): every table name is written as the text before its
\* trailing run of 's' and that run
TrailingS ==
    [agency          |-> <<"agency", "">>,
     stops           |-> <<"stop", "s">>,
     routes          |-> <<"route", "s">>,
     trips           |-> <<"trip", "s">>,
     stop_times      |-> <<"stop_time", "s">>,
     calendar        |-> <<"calendar", "">>,
     calendar_dates  |-> <<"calendar_date", "s">>,
     fare_attributes |-> <<"fare_attribute", "s">>,
     fare_rules      |-> <<"fare_rule", "s">>,
     shapes          |-> <<"shape", "s">>,
     frequencies     |-> <<"frequencie", "s">>,
     transfers       |-> <<"transfer", "s">>,
     pathways        |-> <<"pathway", "s">>,
     levels          |-> <<"level", "s">>,
     feed_info       |-> <<"feed_info", "">>]

\* id_field = table.rstrip('s') + '_id'
id_field(table) == TrailingS[table][1] \o "_id"

\* route_id(table, id_value): a statement naming a column the table does not
\* have raises OperationalError
route_id(table, id_value, store) ==
    IF table \notin TABLES THEN Outcome(handle_error(NO_TABLE), <<>>)
    ELSE IF "id" \notin VERBS[table] THEN Outcome(handle_error(NO_VERB), <<>>)
    ELSE
      LET tbl == store.tables[table]
      IN  IF id_field(table) \notin Range(tbl.columns)
          THEN Outcome(ServerError("OperationalError"), <<>>)
          ELSE Outcome(JsonList(SelectSeq(tbl.rows,
                                   LAMBDA row : Col(tbl, row, id_field(table)) = id_value)),
                       <<Statement("SELECT * FROM {table} WHERE {id_field} = :id",
                                   table, [id |-> id_value])>>)

\* route_fetch(table): sql_query(sql, g.db)[0] is the first row; on an empty
\* result fetchone() is None and dict(None) raises TypeError
route_fetch(table, store) ==
    IF table \notin TABLES THEN Outcome(handle_error(NO_TABLE), <<>>)
    ELSE IF "fetch" \notin VERBS[table] THEN Outcome(handle_error(NO_VERB), <<>>)
    ELSE
      LET rows == store.tables[table].rows
          executed == <<Statement("SELECT * FROM {table}", table, <<>>)>>
      IN  IF Len(rows) = 0 THEN Outcome(ServerError("TypeError"), executed)
          ELSE Outcome(JsonObject(rows[1]), executed)

-----------------------------------------------------------------------------
(* gtfs_server.py: the specialized routes *)

\* route_routes_list(): the statement has no LIMIT and reads no parameter
route_routes_list(store) ==
    LET tbl == store.tables["routes"]
        sorted == OrderBy(tbl.rows,
                          [i \in 1..Len(tbl.rows) |->
                              <<Col(tbl, tbl.rows[i], "route_short_name"),
                                Col(tbl, tbl.rows[i], "route_long_name")>>])
    IN  Outcome(JsonList([i \in 1..Len(sorted) |->
                            <<Col(tbl, sorted[i], "route_id"),
                              Col(tbl, sorted[i], "route_short_name"),
                              Col(tbl, sorted[i], "route_long_name")>>]),
                <<Statement("SELECT route_id, route_short_name, route_long_name FROM routes ORDER BY route_short_name, route_long_name",
                            "routes", <<>>)>>)

\* route_stops_list(): without a route_id it is route_list('stops'); with one,
\* the stops of the route's trips, with no LIMIT
route_stops_list(args, store) ==
    IF "route_id" \notin DOMAIN args THEN route_list("stops", args, store)
    ELSE
      LET trips      == store.tables["trips"]
          stop_times == store.tables["stop_times"]
          stops      == store.tables["stops"]
          joined(s)  == \E i \in 1..Len(trips.rows), j \in 1..Len(stop_times.rows) :
                           /\ Col(trips, trips.rows[i], "route_id") = args["route_id"]
                           /\ Col(trips, trips.rows[i], "trip_id")
                                = Col(stop_times, stop_times.rows[j], "trip_id")
                           /\ Col(stops, s, "stop_id")
                                = Col(stop_times, stop_times.rows[j], "stop_id")
          found      == Distinct(SelectSeq(stops.rows, joined))
      IN  Outcome(JsonList(OrderBy(found, [i \in 1..Len(found) |->
                                             <<Col(stops, found[i], "stop_id")>>])),
                  <<Statement("SELECT DISTINCT s.* FROM trips t INNER JOIN stop_times st ... INNER JOIN stops s ... WHERE t.route_id = :route_id ORDER BY s.stop_id",
                              "stops", [route_id |-> args["route_id"]])>>)

locate_params == <<"high_lat", "low_lat", "high_lon", "low_lon">>

\* a WHERE clause that keeps the stops on the edges
InBoundsOrOnEdge(stops, row, params) ==
    /\ Col(stops, row, "stop_lat") <= params.high_lat
    /\ Col(stops, row, "stop_lat") >= params.low_lat
    /\ Col(stops, row, "stop_lon") <= params.high_lon
    /\ Col(stops, row, "stop_lon") >= params.low_lon

\* WHERE stop_lat < :high_lat AND stop_lat > :low_lat
\*   AND stop_lon < :high_lon AND stop_lon > :low_lon
\* (every stop of the model's stores has its coordinates)
InBounds(stops, row, params) ==
    /\ Col(stops, row, "stop_lat") < params.high_lat
    /\ Col(stops, row, "stop_lat") > params.low_lat
    /\ Col(stops, row, "stop_lon") < params.high_lon
    /\ Col(stops, row, "stop_lon") > params.low_lon

\* route_stops_locate()
route_stops_locate(args, store) ==
    IF \E i \in 1..Len(locate_params) : locate_params[i] \notin DOMAIN args
    THEN LET i == CHOOSE k \in 1..Len(locate_params) :
                     /\ locate_params[k] \notin DOMAIN args
                     /\ \A j \in 1..(k - 1) : locate_params[j] \in DOMAIN args
         IN  Outcome(handle_error(NO_PARAM(locate_params[i])), <<>>)
    ELSE
      LET loc == get_locate_params(args)
          lp  == get_list_params(args)
      IN  IF ~loc.ok \/ ~lp.ok THEN Outcome(handle_error(INVALID_PARAM), <<>>)
          ELSE
            LET params == [high_lat |-> loc.high_lat, low_lat |-> loc.low_lat,
                           high_lon |-> loc.high_lon, low_lon |-> loc.low_lon,
                           limit |-> lp.count, offset |-> lp.page * lp.count]
                stops  == store.tables["stops"]
                inside(row) == InBounds(stops, row, params)
            IN  Outcome(JsonList(LimitOffset(SelectSeq(stops.rows, inside),
                                             params.limit, params.offset)),
                        <<Statement("SELECT * FROM stops WHERE stop_lat < :high_lat AND stop_lat > :low_lat AND stop_lon < :high_lon AND stop_lon > :low_lon LIMIT :limit OFFSET :offset",
                                    "stops", params)>>)

-----------------------------------------------------------------------------
(* time.strptime(yyyymmdd, '%Y%m%d') *)

IsLeap(y) == (y % 4 = 0 /\ y % 100 # 0) \/ y % 400 = 0

DaysInMonth(y, m) ==
    IF m = 2 THEN (IF IsLeap(y) THEN 29 ELSE 28)
    ELSE IF m \in {4, 6, 9, 11} THEN 30 ELSE 31

RECURSIVE DaysBeforeMonth(_, _)
DaysBeforeMonth(y, m) ==
    IF m <= 1 THEN 0 ELSE DaysBeforeMonth(y, m - 1) + DaysInMonth(y, m - 1)

\* date(y, m, d).weekday(): 0 is Monday
Weekday(y, m, d) ==
    LET before  == (y - 1) * 365 + ((y - 1) \div 4) - ((y - 1) \div 100) + ((y - 1) \div 400)
        ordinal == before + DaysBeforeMonth(y, m) + d
    IN  (ordinal + 6) % 7

\* the lengths, in the order the regular expression tries them, of the
\* matches of %m (1[0-2]|0[1-9]|[1-9]) at the head of s
MonthMatches(s) ==
    (IF Len(s) >= 2 /\ s[1] = "1" /\ s[2] \in {"0", "1", "2"} THEN <<2>> ELSE <<>>)
    \o (IF Len(s) >= 2 /\ s[1] = "0" /\ IsDigit(s[2]) /\ s[2] # "0" THEN <<2>> ELSE <<>>)
    \o (IF Len(s) >= 1 /\ IsDigit(s[1]) /\ s[1] # "0" THEN <<1>> ELSE <<>>)

\* the same for %d (3[0-1]|[1-2]\d|0[1-9]|[1-9]| [1-9])
DayMatches(s) ==
    (IF Len(s) >= 2 /\ s[1] = "3" /\ s[2] \in {"0", "1"} THEN <<2>> ELSE <<>>)
    \o (IF Len(s) >= 2 /\ s[1] \in {"1", "2"} /\ IsDigit(s[2]) THEN <<2>> ELSE <<>>)
    \o (IF Len(s) >= 2 /\ s[1] = "0" /\ IsDigit(s[2]) /\ s[2] # "0" THEN <<2>> ELSE <<>>)
    \o (IF Len(s) >= 1 /\ IsDigit(s[1]) /\ s[1] # "0" THEN <<1>> ELSE <<>>)
    \o (IF Len(s) >= 2 /\ s[1] = " " /\ IsDigit(s[2]) /\ s[2] # "0" THEN <<2>> ELSE <<>>)

\* strptime: the first match of \d\d\d\d, %m, %d from the start of the text;
\* ValueError if there is none, if text remains after it, or if the day is
\* not a day of the month
strptime(text) ==
    LET rest == SubSeq(text, 5, Len(text))
        ms   == MonthMatches(rest)
        usable(i) == DayMatches(SubSeq(rest, ms[i] + 1, Len(rest))) # <<>>
    IN  IF ~(Len(text) >= 4 /\ \A i \in 1..4 : IsDigit(text[i]))
           \/ ~(\E i \in 1..Len(ms) : usable(i))
        THEN [ok |-> FALSE, tm_wday |-> 0]
        ELSE
          LET i    == CHOOSE k \in 1..Len(ms) : usable(k) /\ \A j \in 1..(k - 1) : ~usable(j)
              mlen == ms[i]
              dlen == DayMatches(SubSeq(rest, mlen + 1, Len(rest)))[1]
              y    == DigitsValue(SubSeq(text, 1, 4))
              m    == DigitsValue(SubSeq(rest, 1, mlen))
              d    == DigitsValue(Strip(SubSeq(rest, mlen + 1, mlen + dlen)))
          IN  IF mlen + dlen # Len(rest) \/ y < 1 \/ d > DaysInMonth(y, m)
              THEN [ok |-> FALSE, tm_wday |-> 0]
              ELSE [ok |-> TRUE, tm_wday |-> Weekday(y, m, d)]

weekdays == <<"monday", "tuesday", "wednesday", "thursday", "friday", "saturday", "sunday">>

-----------------------------------------------------------------------------
(* route_schedule *)

\* a replace that leaves the text as it is
KeepAll(text, old) == text

\* str.replace(old, ''), old being one character
RECURSIVE Remove(_, _)
Remove(text, old) ==
    IF Len(text) = 0 THEN <<>>
    ELSE IF text[1] = old THEN Remove(Tail(text), old)
    ELSE <<text[1]>> \o Remove(Tail(text), old)

\* the bound text :yyyymmdd beside a DATE or INTEGER column: the column's
\* numeric affinity turns a text that writes a number into that number, any
\* other text stays a text
AsNumeric(text) ==
    IF AllDigits(text) THEN [numeric |-> TRUE, v |-> DigitsValue(text)]
    ELSE [numeric |-> FALSE, v |-> 0]

\* column > :param and column = :param for a numeric column value (a number
\* sorts before every text)
SqlGreater(value, param) == param.numeric /\ value > param.v

SqlEqual(value, param) == param.numeric /\ value = param.v

\* the subquery of route_schedule's statement: the service ids of
\*   SELECT c.service_id FROM calendar c WHERE c.end_date > :yyyymmdd
\*     AND c.{weekday} = 1
\*     AND NOT :yyyymmdd IN (SELECT date FROM calendar_dates cd
\*                           WHERE cd.exception_type = 2)
\*   UNION SELECT service_id FROM calendar_dates
\*     WHERE date = :yyyymmdd AND exception_type = 1
active_services(store, yyyymmdd, weekday) ==
    LET calendar       == store.tables["calendar"]
        calendar_dates == store.tables["calendar_dates"]
        param          == AsNumeric(yyyymmdd)
        removed_dates  == {Col(calendar_dates, calendar_dates.rows[i], "date") :
                             i \in {k \in 1..Len(calendar_dates.rows) :
                                      Col(calendar_dates, calendar_dates.rows[k],
                                          "exception_type") = 2}}
        in_removed     == \E d \in removed_dates : SqlEqual(d, param)
        by_calendar    == {Col(calendar, calendar.rows[i], "service_id") :
                             i \in {k \in 1..Len(calendar.rows) :
                                      /\ SqlGreater(Col(calendar, calendar.rows[k], "end_date"), param)
                                      /\ Col(calendar, calendar.rows[k], weekday) = 1
                                      /\ ~in_removed}}
        by_exception   == {Col(calendar_dates, calendar_dates.rows[i], "service_id") :
                             i \in {k \in 1..Len(calendar_dates.rows) :
                                      /\ SqlEqual(Col(calendar_dates, calendar_dates.rows[k], "date"), param)
                                      /\ Col(calendar_dates, calendar_dates.rows[k],
                                             "exception_type") = 1}}
    IN  by_calendar \cup by_exception

\* every pair of a row of a and a row of b, in nested-loop order
Cross(a, b) ==
    [k \in 1..(Len(a) * Len(b)) |->
        <<a[((k - 1) \div Len(b)) + 1], b[((k - 1) % Len(b)) + 1]>>]

\* route_schedule(stop_id)
route_schedule(stop_id, args, store) ==
    IF "date" \notin DOMAIN args THEN Outcome(JsonList(<<>>), <<>>)
    ELSE
      LET yyyymmdd == Remove(args["date"], "-")
          parsed   == strptime(yyyymmdd)
      IN  IF ~parsed.ok THEN Outcome(JsonList(<<>>), <<>>)
          ELSE
            LET weekday    == weekdays[parsed.tm_wday + 1]
                trips      == store.tables["trips"]
                stop_times == store.tables["stop_times"]
                routes     == store.tables["routes"]
                active     == active_services(store, yyyymmdd, weekday)
                t(j)  == j[1][1]
                st(j) == j[1][2]
                r(j)  == j[2]
                on(j) == /\ Col(stop_times, st(j), "trip_id") = Col(trips, t(j), "trip_id")
                         /\ Col(trips, t(j), "route_id") = Col(routes, r(j), "route_id")
                         /\ Col(stop_times, st(j), "stop_id") = stop_id
                         /\ Col(trips, t(j), "service_id") \in active
                found  == SelectSeq(Cross(Cross(trips.rows, stop_times.rows),
                                          routes.rows), on)
                sorted == OrderBy(found, [i \in 1..Len(found) |->
                                            <<Col(stop_times, st(found[i]), "arrival_time")>>])
            IN  Outcome(JsonList([i \in 1..Len(sorted) |->
                                    <<Col(stop_times, st(sorted[i]), "arrival_time"),
                                      Col(trips, t(sorted[i]), "trip_headsign"),
                                      Col(routes, r(sorted[i]), "route_short_name"),
                                      Col(routes, r(sorted[i]), "route_long_name")>>]),
                        <<Statement("SELECT st.arrival_time, t.trip_headsign, r.route_short_name, r.route_long_name FROM trips t INNER JOIN stop_times st ... INNER JOIN routes r ... WHERE st.stop_id = :stop_id AND t.service_id IN (...) ORDER BY st.arrival_time",
                                    "stop_times",
                                    [yyyymmdd |-> yyyymmdd, stop_id |-> stop_id])>>)

-----------------------------------------------------------------------------
(* The stores the server is started on: what an import of a feed leaves.   *)
(* Every table exists with the schema of its CREATE TABLE statement and    *)
(* the four indexes exist; a column the feed's file did not have is NULL.  *)

\* a row of a table: the given values under their columns, NULL elsewhere
Row(create_sql, values) ==
    [i \in 1..Len(create_sql.columns) |->
        IF create_sql.columns[i] \in DOMAIN values
        THEN values[create_sql.columns[i]] ELSE NULL]

\* the store holding the given rows; content maps table names to row values
ImportedStore(content) ==
    [tables  |-> [t \in TableNames |->
                    [NewTable(CreateSqlOf(t)) EXCEPT !.rows =
                        IF t \in DOMAIN content
                        THEN [k \in 1..Len(content[t]) |-> Row(CreateSqlOf(t), content[t][k])]
                        ELSE <<>>]],
     indexes |-> Range(SQL_LIST_CREATE_INDEXES)]

\* a small feed: one agency, three stops, two routes whose short names sort
\* as texts in the reverse of their stored order, two trips, three stop
\* times, one calendar row and no calendar_dates rows
SmallFeed ==
    ImportedStore(
      [agency |-> << [agency_id |-> <<"M">>, agency_name |-> <<"M", "e", "t", "r", "o">>,
                      agency_url |-> <<"m", "e", "t", "r", "o">>,
                      agency_timezone |-> <<"e", "a", "s", "t">>] >>,
       stops  |-> << [stop_id |-> <<"S", "1">>, stop_name |-> <<"M", "a", "i", "n">>,
                      stop_desc |-> <<"a", "t", " ", "O", "a", "k">>,
                      stop_lat |-> 10, stop_lon |-> 10],
                     [stop_id |-> <<"S", "2">>, stop_name |-> <<"O", "a", "k">>,
                      stop_desc |-> <<"e", "a", "s", "t">>,
                      stop_lat |-> 20, stop_lon |-> -20],
                     [stop_id |-> <<"S", "3">>, stop_name |-> <<"S", "t", "a", "t", "i", "o", "n">>,
                      stop_desc |-> <<"m", "a", "i", "n">>,
                      stop_lat |-> 45, stop_lon |-> 170] >>,
       routes |-> << [route_id |-> <<"R", "1">>, route_short_name |-> <<"2">>,
                      route_long_name |-> <<"M", "a", "i", "n">>,
                      route_desc |-> <<"m", "e", "t", "r", "o">>, route_type |-> 3],
                     [route_id |-> <<"R", "2">>, route_short_name |-> <<"1", "0">>,
                      route_long_name |-> <<"O", "a", "k">>,
                      route_desc |-> <<"b", "u", "s">>, route_type |-> 3] >>,
       trips  |-> << [route_id |-> <<"R", "1">>, service_id |-> <<"A">>,
                      trip_id |-> <<"T", "1">>, trip_headsign |-> <<"N", "o", "r", "t", "h">>],
                     [route_id |-> <<"R", "2">>, service_id |-> <<"A">>,
                      trip_id |-> <<"T", "2">>, trip_headsign |-> <<"S", "t", "a", "t", "i", "o", "n">>] >>,
       stop_times |-> << [trip_id |-> <<"T", "1">>, arrival_time |-> <<"0", "8", ":", "0", "0">>,
                          stop_id |-> <<"S", "1">>, stop_sequence |-> 1,
                          stop_headsign |-> <<"N", "o", "r", "t", "h">>],
                         [trip_id |-> <<"T", "1">>, arrival_time |-> <<"0", "8", ":", "1", "0">>,
                          stop_id |-> <<"S", "2">>, stop_sequence |-> 2,
                          stop_headsign |-> <<"N", "o", "r", "t", "h">>],
                         [trip_id |-> <<"T", "2">>, arrival_time |-> <<"0", "7", ":", "3", "0">>,
                          stop_id |-> <<"S", "1">>, stop_sequence |-> 1,
                          stop_headsign |-> <<"e", "a", "s", "t">>] >>,
       calendar |-> << [service_id |-> <<"A">>, monday |-> 1, tuesday |-> 1, wednesday |-> 1,
                        thursday |-> 1, friday |-> 1, saturday |-> 0, sunday |-> 0,
                        start_date |-> 20240101, end_date |-> 20241231] >>])

\* what the import of a feed whose files hold only their header lines leaves
HeaderOnlyFeed == ImportedStore(<<>>)

QueryStores == {SmallFeed, HeaderOnlyFeed}

\* the largest number of calendar_dates rows of a schedule store
MaxExceptions == 2

\* the service ids of the schedule stores; each has one trip, whose headsign
\* is the service id, calling at stop S1
Services == {<<"A">>, <<"B">>}

\* service days of the schedule stores: a Monday, the Tuesday after it and
\* the Monday a week later
ServiceDays == {20240701, 20240702, 20240708}

\* the calendar rows service A may have: none, or one active on Mondays or
\* on Tuesdays over a range of service days
CalendarsA ==
    {<<>>} \cup
    {<< [service_id |-> <<"A">>, monday |-> f[1], tuesday |-> f[2], wednesday |-> 0,
         thursday |-> 0, friday |-> 0, saturday |-> 0, sunday |-> 0,
         start_date |-> r[1], end_date |-> r[2]] >> :
       f \in {<<1, 0>>, <<0, 1>>},
       r \in {<<20240701, 20240702>>, <<20240702, 20240708>>, <<20240701, 20240708>>}}

\* the calendar rows service B may have
CalendarsB ==
    {<<>>,
     << [service_id |-> <<"B">>, monday |-> 1, tuesday |-> 1, wednesday |-> 0,
         thursday |-> 0, friday |-> 0, saturday |-> 0, sunday |-> 0,
         start_date |-> 20240701, end_date |-> 20240708] >>}

\* the calendar_dates rows a schedule store may hold, in file order
AllExceptions ==
    << [service_id |-> <<"A">>, date |-> 20240701, exception_type |-> 1],
       [service_id |-> <<"A">>, date |-> 20240701, exception_type |-> 2],
       [service_id |-> <<"A">>, date |-> 20240702, exception_type |-> 1],
       [service_id |-> <<"A">>, date |-> 20240702, exception_type |-> 2],
       [service_id |-> <<"B">>, date |-> 20240701, exception_type |-> 1],
       [service_id |-> <<"B">>, date |-> 20240701, exception_type |-> 2],
       [service_id |-> <<"B">>, date |-> 20240702, exception_type |-> 1],
       [service_id |-> <<"B">>, date |-> 20240702, exception_type |-> 2] >>

\* the rows of AllExceptions at the positions in `chosen`
Chosen(chosen) == SelectSeq([k \in 1..Len(AllExceptions) |-> <<k, AllExceptions[k]>>],
                            LAMBDA p : p[1] \in chosen)

ScheduleStore(calendar, exceptions) ==
    ImportedStore(
      [routes |-> << [route_id |-> <<"R", "1">>, route_short_name |-> <<"1">>,
                      route_long_name |-> <<"M", "a", "i", "n">>, route_type |-> 3] >>,
       trips  |-> << [route_id |-> <<"R", "1">>, service_id |-> <<"A">>,
                      trip_id |-> <<"T", "A">>, trip_headsign |-> <<"A">>],
                     [route_id |-> <<"R", "1">>, service_id |-> <<"B">>,
                      trip_id |-> <<"T", "B">>, trip_headsign |-> <<"B">>] >>,
       stop_times |-> << [trip_id |-> <<"T", "A">>, arrival_time |-> <<"0", "8", ":", "0", "0">>,
                          stop_id |-> <<"S", "1">>, stop_sequence |-> 1],
                         [trip_id |-> <<"T", "B">>, arrival_time |-> <<"0", "7", ":", "3", "0">>,
                          stop_id |-> <<"S", "1">>, stop_sequence |-> 1] >>,
       calendar |-> calendar,
       calendar_dates |-> exceptions])

ScheduleStores ==
    {ScheduleStore(a \o b, [k \in 1..Len(Chosen(x)) |-> Chosen(x)[k][2]]) :
       a \in CalendarsA, b \in CalendarsB,
       x \in {c \in SUBSET (1..Len(AllExceptions)) : Cardinality(c) <= MaxExceptions}}

-----------------------------------------------------------------------------
(* Requests.  A request is GET /api/<table>/<verb>, /api/<table>/<verb>/<arg> *)
(* or /api/<table>/<arg>/schedule with a query string; arg is <<>> or <<text>> *)

Request(table, verb, arg, args) == [table |-> table, verb |-> verb, arg |-> arg, args |-> args]

SampleTables ==
    {"nosuch", "agency", "stops", "routes", "trips", "stop_times", "calendar", "calendar_dates"}

CountTexts == {<<"0">>, <<"1">>, <<"2">>, <<"1", "0", "1">>, <<"-", "1">>, <<" ", "2", " ">>,
               <<"a", "b", "c">>}

PageTexts == {<<"0">>, <<"1">>, <<"-", "1">>, <<"x">>}

\* query strings with count and page, each given or not
ListArgs ==
    {<<>>} \cup {[count |-> c] : c \in CountTexts} \cup {[page |-> p] : p \in PageTexts}
           \cup {[count |-> c, page |-> p] : c \in CountTexts, p \in PageTexts}

LocateArgs ==
    {<<>>,
     [high_lat |-> <<"3", "0">>, low_lat |-> <<"0">>, high_lon |-> <<"3", "0">>, low_lon |-> <<"0">>],
     [high_lat |-> <<"9", "9">>, low_lat |-> <<"-", "9", "9">>,
      high_lon |-> <<"1", "8", "0">>, low_lon |-> <<"-", "1", "8", "0">>],
     [high_lat |-> <<"3", "0">>, low_lat |-> <<"0">>, high_lon |-> <<"3", "0">>, low_lon |-> <<"0">>,
      count |-> <<"0">>],
     [high_lat |-> <<"3", "0">>, low_lat |-> <<"0">>, high_lon |-> <<"3", "0">>],
     [high_lat |-> <<"3", "0">>, low_lat |-> <<"1", "0">>,
      high_lon |-> <<"3", "0">>, low_lon |-> <<"-", "3", "0">>],
     [high_lat |-> <<"0">>, low_lat |-> <<"3", "0">>, high_lon |-> <<"3", "0">>, low_lon |-> <<"0">>],
     [high_lat |-> <<"3", "0">>, low_lat |-> <<"0">>, high_lon |-> <<"0">>, low_lon |-> <<"3", "0">>],
     [low_lat |-> <<"0">>, low_lon |-> <<"0">>],
     [high_lat |-> <<"x">>, low_lat |-> <<"0">>, high_lon |-> <<"3", "0">>, low_lon |-> <<"0">>]}

DateTexts ==
    {<<"2", "0", "2", "4", "0", "7", "0", "1">>,
     <<"2", "0", "2", "4", "-", "0", "7", "-", "0", "2">>,
     <<"2", "0", "2", "4", "0", "7", "0", "8">>,
     <<"2", "0", "2", "4", "7", "2">>,
     <<"2", "0", "2", "4", "0", "2", "3", "0">>,
     <<"a", "b", "c">>}

\* the tables whose registry entry declares the verb id
IdTables == {t \in TABLES : "id" \in VERBS[t]}

ScheduleArgs == {<<>>} \cup {[date |-> d] : d \in DateTexts}

QueryRequests ==
    {Request(t, "list", <<>>, a) : t \in SampleTables, a \in ListArgs}
    \cup {Request("stops", "list", <<>>, [route_id |-> r]) : r \in {<<"R", "1">>, <<"R", "9">>}}
    \cup {Request(t, "find", <<term>>, a) :
            t \in SampleTables, term \in {<<"a">>, <<"m", "a", "i", "n">>, <<"%">>},
            a \in {<<>>, [count |-> <<"1">>], [count |-> <<"1">>, page |-> <<"1">>],
                   [count |-> <<"a", "b", "c">>]}}
    \cup {Request(t, "id", <<id>>, <<>>) :
            t \in SampleTables \cup IdTables, id \in {<<"S", "1">>, <<"R", "1">>, <<"M">>, <<"Z">>}}
    \cup {Request(t, "fetch", <<>>, <<>>) : t \in SampleTables}
    \cup {Request(t, "locate", <<>>, a) : t \in SampleTables, a \in LocateArgs}
    \cup {Request(t, "schedule", << <<"S", "1">> >>, a) :
            t \in SampleTables,
            a \in {<<>>, [date |-> <<"2", "0", "2", "4", "0", "7", "0", "1">>],
                   [date |-> <<"a", "b", "c">>]}}

ScheduleRequests ==
    {Request("stop_times", "schedule", <<stop>>, a) :
       stop \in {<<"S", "1">>, <<"S", "9">>}, a \in ScheduleArgs}

-----------------------------------------------------------------------------
(* gtfs_server.py: the server.  Each request goes through before_request,  *)
(* the view function its URL is routed to, and teardown_request.           *)

\* the largest number of requests in one behaviour
MaxRequests == 1
\* the largest number of requests in one behaviour of the concurrent server
MaxConcurrent == 2

\* the @app.route rules: the view function a URL is routed to.  A rule with
\* a fixed segment wins over /api/<table>/list; a URL no rule matches is
\* answered by the framework
url_map(table, verb, arg) ==
    CASE verb = "list" /\ arg = <<>> /\ table = "stops"           -> "route_stops_list"
      [] verb = "list" /\ arg = <<>> /\ table = "routes"          -> "route_routes_list"
      [] verb = "list" /\ arg = <<>> /\ table \notin {"stops", "routes"} -> "route_list"
      [] verb = "locate" /\ arg = <<>> /\ table = "stops"         -> "route_stops_locate"
      [] verb = "schedule" /\ arg # <<>> /\ table = "stop_times"  -> "route_schedule"
      [] verb = "find" /\ arg # <<>>                              -> "route_find"
      [] verb = "id" /\ arg # <<>>                                -> "route_id"
      [] verb = "fetch" /\ arg = <<>>                             -> "route_fetch"
      [] OTHER                                                    -> "not_found"

\* the importer's variables once the import is over and the server runs
ServerStarted ==
    /\ pc = "serving"
    /\ archive = [status |-> "imported", names |-> {}, files |-> <<>>]
    /\ db0 = db
    /\ conn = [open |-> FALSE, inTxn |-> FALSE, view |-> EmptyStore]
    /\ tableIdx = 0
    /\ rows_read = [t \in TableNames |-> -1]
    /\ raised = "none"
    /\ result = 0
    /\ exitCode = 0
    /\ run = 1
    /\ reqs = NoRequests
    /\ connections = <<>>

\* a request arrives
Receive(requests, most) ==
    /\ pc = "serving"
    /\ Len(reqs) < most
    /\ \E r \in requests :
          reqs' = Append(reqs, [pc |-> "received", table |-> r.table, verb |-> r.verb,
                                arg |-> r.arg, args |-> r.args, g_db |-> 0,
                                executed |-> <<>>, response |-> NoResponse])
    /\ UNCHANGED <<importVars, connections>>

\* a get_db that hands out a connection that is still open, if there is one
get_db_shared(made) ==
    IF \E k \in DOMAIN made : made[k] = "open"
    THEN [connections |-> made,
          handle |-> CHOOSE k \in DOMAIN made : made[k] = "open"]
    ELSE [connections |-> Append(made, "open"), handle |-> Len(made) + 1]

\* get_db(): sqlite3.connect makes a new connection at every call
get_db(made) ==
    [connections |-> Append(made, "open"), handle |-> Len(made) + 1]

\* before_request(): g.db = get_db(); g belongs to the request's own context,
\* and the field g_db is 0 while g has no attribute db
before_request(i) ==
    /\ reqs[i].pc = "received"
    /\ LET made == get_db(connections)
       IN  /\ connections' = made.connections
           /\ reqs' = [reqs EXCEPT ![i].g_db = made.handle, ![i].pc = "dispatch"]
    /\ UNCHANGED importVars

\* request i is at its view function `view`
At(i, view) ==
    /\ reqs[i].pc = "dispatch"
    /\ url_map(reqs[i].table, reqs[i].verb, reqs[i].arg) = view

\* the view function returns or raises: sql_query only reads the store
Respond(i, outcome) ==
    /\ reqs' = [reqs EXCEPT ![i].response = outcome.response,
                            ![i].executed = outcome.executed,
                            ![i].pc = "responded"]
    /\ UNCHANGED <<importVars, connections>>

Serve_route_list(i) ==
    /\ At(i, "route_list")
    /\ Respond(i, route_list(reqs[i].table, reqs[i].args, db))

Serve_route_stops_list(i) ==
    /\ At(i, "route_stops_list")
    /\ Respond(i, route_stops_list(reqs[i].args, db))

Serve_route_routes_list(i) ==
    /\ At(i, "route_routes_list")
    /\ Respond(i, route_routes_list(db))

Serve_route_stops_locate(i) ==
    /\ At(i, "route_stops_locate")
    /\ Respond(i, route_stops_locate(reqs[i].args, db))

Serve_route_schedule(i) ==
    /\ At(i, "route_schedule")
    /\ Respond(i, route_schedule(reqs[i].arg[1], reqs[i].args, db))

Serve_route_find(i) ==
    /\ At(i, "route_find")
    /\ Respond(i, route_find(reqs[i].table, reqs[i].arg[1], reqs[i].args, db))

Serve_route_id(i) ==
    /\ At(i, "route_id")
    /\ Respond(i, route_id(reqs[i].table, reqs[i].arg[1], db))

Serve_route_fetch(i) ==
    /\ At(i, "route_fetch")
    /\ Respond(i, route_fetch(reqs[i].table, db))

\* no rule matches the URL: the framework answers 404 Not Found
Serve_not_found(i) ==
    /\ At(i, "not_found")
    /\ Respond(i, Outcome(NotFound, <<>>))

\* teardown_request(exception): "if hasattr(g, 'db'): g.db.close()", run by
\* the framework when the request ends, whatever the view returned or raised
teardown_request(i) ==
    /\ reqs[i].pc = "responded"
    /\ connections' = IF reqs[i].g_db # 0
                      THEN [connections EXCEPT ![reqs[i].g_db] = "closed"]
                      ELSE connections
    /\ reqs' = [reqs EXCEPT ![i].pc = "done"]
    /\ UNCHANGED importVars

\* the server on a query store, taking requests of every verb
QueryInit ==
    /\ db \in QueryStores
    /\ ServerStarted

QueryNext ==
    \/ Receive(QueryRequests, MaxRequests)
    \/ \E i \in DOMAIN reqs : before_request(i)
    \/ \E i \in DOMAIN reqs : Serve_route_list(i)
    \/ \E i \in DOMAIN reqs : Serve_route_stops_list(i)
    \/ \E i \in DOMAIN reqs : Serve_route_routes_list(i)
    \/ \E i \in DOMAIN reqs : Serve_route_stops_locate(i)
    \/ \E i \in DOMAIN reqs : Serve_route_schedule(i)
    \/ \E i \in DOMAIN reqs : Serve_route_find(i)
    \/ \E i \in DOMAIN reqs : Serve_route_id(i)
    \/ \E i \in DOMAIN reqs : Serve_route_fetch(i)
    \/ \E i \in DOMAIN reqs : Serve_not_found(i)
    \/ \E i \in DOMAIN reqs : teardown_request(i)

SpecQuery == QueryInit /\ [][QueryNext]_vars

\* the server on a schedule store, taking schedule requests
ScheduleInit ==
    /\ db \in ScheduleStores
    /\ ServerStarted

ScheduleNext ==
    \/ Receive(ScheduleRequests, MaxRequests)
    \/ \E i \in DOMAIN reqs : before_request(i)
    \/ \E i \in DOMAIN reqs : Serve_route_schedule(i)
    \/ \E i \in DOMAIN reqs : teardown_request(i)

SpecSchedule == ScheduleInit /\ [][ScheduleNext]_vars

\* requests that leave their view function in each way: a list and an error
\* of a parameter (route_list), an error of the API (route_id), an exception
\* the application does not handle (route_find) and a URL no rule matches
ConcurrentRequests ==
    {Request("agency", "list", <<>>, <<>>),
     Request("agency", "list", <<>>, [count |-> <<"a", "b", "c">>]),
     Request("nosuch", "id", << <<"M">> >>, <<>>),
     Request("stops", "find", << <<"a">> >>, <<>>),
     Request("agency", "locate", <<>>, <<>>)}

\* the server taking requests while others are in flight: the steps of the
\* requests interleave in every order
ConcurrentInit ==
    /\ db = SmallFeed
    /\ ServerStarted

ConcurrentNext ==
    \/ Receive(ConcurrentRequests, MaxConcurrent)
    \/ \E i \in DOMAIN reqs : before_request(i)
    \/ \E i \in DOMAIN reqs : Serve_route_list(i)
    \/ \E i \in DOMAIN reqs : Serve_route_find(i)
    \/ \E i \in DOMAIN reqs : Serve_route_id(i)
    \/ \E i \in DOMAIN reqs : Serve_not_found(i)
    \/ \E i \in DOMAIN reqs : teardown_request(i)

SpecConcurrent == ConcurrentInit /\ [][ConcurrentNext]_vars

-----------------------------------------------------------------------------
(* Properties of the server *)

\* request i has been answered
Answered(i) == reqs[i].pc \in {"responded", "done"}

\* request i asked for the schedule of stop S1 on a day written with eight
\* digits, dashes aside
ScheduleOnDay(i) ==
    /\ Answered(i)
    /\ reqs[i].table = "stop_times" /\ reqs[i].verb = "schedule"
    /\ reqs[i].arg = << <<"S", "1">> >>
    /\ "date" \in DOMAIN reqs[i].args
    /\ Len(Remove(reqs[i].args["date"], "-")) = 8
    /\ strptime(Remove(reqs[i].args["date"], "-")).ok

\* the day request i names, as a number, and the name of its weekday
DayOf(i) == DigitsValue(Remove(reqs[i].args["date"], "-"))

WeekdayOf(i) == weekdays[strptime(Remove(reqs[i].args["date"], "-")).tm_wday + 1]

\* the services whose trips a schedule response lists (in a schedule store
\* the headsign of a service's trip is the service id)
ServicesIn(response) == {response.rows[k][2] : k \in 1..Len(response.rows)}

\* the rows of a table, as records
RowsOf(store, table) ==
    {[c \in Range(store.tables[table].columns) |->
         Col(store.tables[table], store.tables[table].rows[k], c)] :
       k \in 1..Len(store.tables[table].rows)}

\* service s has a calendar row whose range and weekday flag include day D
PatternIncludes(store, s, D, weekday) ==
    \E c \in RowsOf(store, "calendar") :
        /\ c.service_id = s
        /\ c.start_date <= D /\ D <= c.end_date
        /\ c[weekday] = 1

\* service s has a calendar_dates row of the given type on day D
HasException(store, s, D, type) ==
    \E cd \in RowsOf(store, "calendar_dates") :
        cd.service_id = s /\ cd.date = D /\ cd.exception_type = type

\* C1: for every store and every valid date D, the services the schedule
\* query treats as active on D are exactly (a) the services with a calendar
\* row with start_date <= D <= end_date and the flag of D's weekday set, and
\* no calendar_dates row (s, D, 2), together with (b) the services with a
\* calendar_dates row (s, D, 1).
C1_ActiveServicesAsDefined ==
    \A i \in DOMAIN reqs :
        ScheduleOnDay(i) =>
            ServicesIn(reqs[i].response)
              = {s \in Services :
                   \/ /\ PatternIncludes(db, s, DayOf(i), WeekdayOf(i))
                      /\ ~HasException(db, s, DayOf(i), 2)
                   \/ HasException(db, s, DayOf(i), 1)}

\* the store with one more calendar_dates row
WithException(store, cd) ==
    [store EXCEPT !.tables["calendar_dates"].rows =
        Append(@, Row(SQL_CREATE_CALENDAR_DATES, cd))]

\* the store without the calendar_dates rows of service s on day D
WithoutExceptions(store, s, D) ==
    [store EXCEPT !.tables["calendar_dates"].rows =
        SelectSeq(@, LAMBDA row :
            ~(/\ Col(store.tables["calendar_dates"], row, "service_id") = s
              /\ Col(store.tables["calendar_dates"], row, "date") = D))]

\* the services the schedule of request i would list on another store
ServicesOn(i, store) ==
    ServicesIn(route_schedule(reqs[i].arg[1], reqs[i].args, store).response)

\* C2: whether a service s is active on D depends only on s's own calendar
\* row and s's own calendar_dates rows for D: adding or removing an exception
\* row of a different service on D never changes whether s is active on D,
\* and a service with no exception of its own on D is active exactly when its
\* weekly pattern and date range include D.
C2_ActivityDependsOnOwnRows ==
    \A i \in DOMAIN reqs :
        ScheduleOnDay(i) =>
            \A s \in Services :
                /\ \A other \in Services \ {s}, type \in {1, 2} :
                      /\ (s \in ServicesIn(reqs[i].response))
                           = (s \in ServicesOn(i, WithException(db,
                                   [service_id |-> other, date |-> DayOf(i),
                                    exception_type |-> type])))
                      /\ (s \in ServicesIn(reqs[i].response))
                           = (s \in ServicesOn(i, WithoutExceptions(db, other, DayOf(i))))
                /\ (~HasException(db, s, DayOf(i), 1) /\ ~HasException(db, s, DayOf(i), 2))
                      => ((s \in ServicesIn(reqs[i].response))
                            = PatternIncludes(db, s, DayOf(i), WeekdayOf(i)))

\* the six verbs of the API
ApiVerbs == {"id", "list", "find", "fetch", "locate", "schedule"}

\* C8: for every request (table, verb) with one of the six verbs, a table
\* that is not in the registry is answered with the error 'Table does not
\* exist' and a registered table that does not declare the verb with the
\* error 'Verb not supported'; in both cases no query is run and the store
\* is unchanged.
C8_DispatchErrors ==
    \A i \in DOMAIN reqs :
        (Answered(i) /\ reqs[i].verb \in ApiVerbs) =>
            /\ reqs[i].table \notin TABLES =>
                  /\ reqs[i].response = handle_error(NO_TABLE)
                  /\ reqs[i].executed = <<>>
            /\ (reqs[i].table \in TABLES /\ reqs[i].verb \notin VERBS[reqs[i].table]) =>
                  /\ reqs[i].response = handle_error(NO_VERB)
                  /\ reqs[i].executed = <<>>
            /\ db = db0

\* request i is a list request, with no parameter but count and page, for a
\* table that declares the verb
ListOfTable(i) ==
    /\ Answered(i)
    /\ reqs[i].verb = "list" /\ reqs[i].arg = <<>>
    /\ reqs[i].table \in TABLES
    /\ "list" \in VERBS[reqs[i].table]
    /\ DOMAIN reqs[i].args \subseteq {"count", "page"}

\* the parameter parses as an integer, or is absent
Parses(args, key) == key \in DOMAIN args => ParseNumber(args[key]).ok

\* the integer supplied for the parameter, or the default
Supplied(args, key, default) ==
    IF key \in DOMAIN args THEN ParseNumber(args[key]).value ELSE default

\* the count and the page in effect for a query string
EffectiveCount(args) == Max(0, Min(Supplied(args, "count", DefaultCount), MAX_PAGE_SIZE))

EffectivePage(args) == Max(0, Supplied(args, "page", 0))

\* the rows a LIMIT count OFFSET page * count window keeps
Window(rows, count, page) ==
    SubSeq(rows, page * count + 1, Min(Len(rows), page * count + count))

\* C9: for a list request the effective count is the supplied integer
\* clamped into [0, MAX_PAGE_SIZE] (25 when absent), the effective page the
\* supplied integer clamped to >= 0 (0 when absent), and the query uses
\* LIMIT = count and OFFSET = page * count; count = 0 returns an empty
\* sequence; a value that does not parse as an integer raises the
\* invalid-parameter error.
C9_ListPagination ==
    \A i \in DOMAIN reqs :
        ListOfTable(i) =>
            IF Parses(reqs[i].args, "count") /\ Parses(reqs[i].args, "page")
            THEN LET count == EffectiveCount(reqs[i].args)
                     page  == EffectivePage(reqs[i].args)
                 IN  /\ reqs[i].response
                          = JsonList(Window(db.tables[reqs[i].table].rows, count, page))
                     /\ count = 0 => reqs[i].response.rows = <<>>
                     /\ Len(reqs[i].executed) = 1
                     /\ DOMAIN reqs[i].executed[1].params = {"limit", "offset"}
                     /\ reqs[i].executed[1].params["limit"] = count
                     /\ reqs[i].executed[1].params["offset"] = page * count
            ELSE reqs[i].response = handle_error(INVALID_PARAM)

\* the text holds the term as a substring, letter case aside
Contains(text, term) ==
    \E k \in 0..(Len(text) - Len(term)) :
        \A j \in 1..Len(term) : Lower(text[k + j]) = Lower(term[j])

\* C10: for every table that declares the verb find and every search term, a
\* find request returns the rows of the table in which at least one of the
\* table's search columns contains the term as a substring, paginated with
\* the count/page rule of list.
C10_FindReturnsMatches ==
    \A i \in DOMAIN reqs :
        (/\ Answered(i)
         /\ reqs[i].verb = "find" /\ reqs[i].arg # <<>>
         /\ reqs[i].table \in TABLES
         /\ "find" \in VERBS[reqs[i].table]
         /\ Parses(reqs[i].args, "count") /\ Parses(reqs[i].args, "page")) =>
            LET tbl  == db.tables[reqs[i].table]
                term == reqs[i].arg[1]
                hit(row) == \E k \in 1..Len(SEARCH_FIELDS[reqs[i].table]) :
                               Contains(Col(tbl, row, SEARCH_FIELDS[reqs[i].table][k]), term)
            IN  reqs[i].response
                  = JsonList(Window(SelectSeq(tbl.rows, hit),
                                    EffectiveCount(reqs[i].args),
                                    EffectivePage(reqs[i].args)))

\* C11: for every table that declares the verb id, the identifier column
\* derived from the table name (trailing 's' removed, '_id' appended) is a
\* column of the table's imported schema, and an id request returns exactly
\* the rows whose identifier column equals the supplied value.
C11_IdColumnOfEveryIdTable ==
    \A i \in DOMAIN reqs :
        (/\ Answered(i)
         /\ reqs[i].verb = "id" /\ reqs[i].arg # <<>>
         /\ reqs[i].table \in IdTables) =>
            LET tbl == db.tables[reqs[i].table]
                column == id_field(reqs[i].table)
            IN  /\ column \in Range(tbl.columns)
                /\ reqs[i].response
                     = JsonList(SelectSeq(tbl.rows,
                                  LAMBDA row : Col(tbl, row, column) = reqs[i].arg[1]))

\* request i is a locate request for the stops
LocateOfStops(i) ==
    /\ Answered(i)
    /\ reqs[i].table = "stops" /\ reqs[i].verb = "locate" /\ reqs[i].arg = <<>>

\* the edge parameters a query string lacks
MissingEdges(args) == {p \in Range(locate_params) : p \notin DOMAIN args}

\* the four edges are given and are numbers
EdgesGiven(args) ==
    /\ MissingEdges(args) = {}
    /\ \A p \in Range(locate_params) : ParseNumber(args[p]).ok

\* the number given for an edge
Edge(args, p) == ParseNumber(args[p]).value

\* the stops of the store, each as a record with its row
StopsOf(store) ==
    {[row |-> store.tables["stops"].rows[k],
      lat |-> Col(store.tables["stops"], store.tables["stops"].rows[k], "stop_lat"),
      lon |-> Col(store.tables["stops"], store.tables["stops"].rows[k], "stop_lon")] :
       k \in 1..Len(store.tables["stops"].rows)}

\* C12: a locate request returns only stops with low_lat < stop_lat <
\* high_lat and low_lon < stop_lon < high_lon, a stop exactly on an edge is
\* excluded, and with any of the four edge parameters missing the request
\* fails with 'Missing required parameter: <name>' before any query runs.
C12_LocateStrictlyInside ==
    \A i \in DOMAIN reqs :
        LocateOfStops(i) =>
            /\ MissingEdges(reqs[i].args) # {} =>
                  /\ \E p \in MissingEdges(reqs[i].args) :
                        reqs[i].response = handle_error(NO_PARAM(p))
                  /\ reqs[i].executed = <<>>
            /\ EdgesGiven(reqs[i].args) =>
                  \A k \in 1..Len(reqs[i].response.rows) :
                      \E s \in StopsOf(db) :
                          /\ s.row = reqs[i].response.rows[k]
                          /\ Edge(reqs[i].args, "low_lat") < s.lat
                          /\ s.lat < Edge(reqs[i].args, "high_lat")
                          /\ Edge(reqs[i].args, "low_lon") < s.lon
                          /\ s.lon < Edge(reqs[i].args, "high_lon")

\* a locate request was answered with some stop, and not with a stop that
\* lies on the south edge between the west and east edges
C12_Witness ==
    \E i \in DOMAIN reqs :
        /\ LocateOfStops(i) /\ EdgesGiven(reqs[i].args)
        /\ reqs[i].response.rows # <<>>
        /\ \E s \in StopsOf(db) :
              /\ s.lat = Edge(reqs[i].args, "low_lat")
              /\ Edge(reqs[i].args, "low_lon") < s.lon
              /\ s.lon < Edge(reqs[i].args, "high_lon")
              /\ s.row \notin Range(reqs[i].response.rows)

\* request i is a schedule request
ScheduleOfStop(i) ==
    /\ Answered(i)
    /\ reqs[i].table = "stop_times" /\ reqs[i].verb = "schedule" /\ reqs[i].arg # <<>>

\* the compact form of a date text: the text without its dashes
Compact(text) == SelectSeq(text, LAMBDA c : c # "-")

\* C13: a schedule request with no date, or with a date that does not parse
\* as a calendar date after removing dashes, returns an empty sequence and
\* no error without running any query; a date in dashed form returns the
\* same result as the same date in compact form.
C13_ScheduleDegradesGracefully ==
    \A i \in DOMAIN reqs :
        ScheduleOfStop(i) =>
            /\ ("date" \notin DOMAIN reqs[i].args
                  \/ ~strptime(Compact(reqs[i].args["date"])).ok) =>
                  /\ reqs[i].response = JsonList(<<>>)
                  /\ reqs[i].executed = <<>>
            /\ "date" \in DOMAIN reqs[i].args =>
                  reqs[i].response
                    = route_schedule(reqs[i].arg[1],
                                     [date |-> Compact(reqs[i].args["date"])], db).response

\* a schedule request with a dashed date was answered with arrivals
C13_Witness ==
    \E i \in DOMAIN reqs :
        /\ ScheduleOfStop(i)
        /\ "date" \in DOMAIN reqs[i].args
        /\ Compact(reqs[i].args["date"]) # reqs[i].args["date"]
        /\ reqs[i].response.kind = "json"
        /\ reqs[i].response.rows # <<>>

\* request i is a list, find or locate request answered with rows
PagedRequest(i) ==
    /\ Answered(i)
    /\ reqs[i].verb \in {"list", "find", "locate"}
    /\ reqs[i].response.kind = "json"

\* C14: every response of a list, find or locate request has at most
\* MAX_PAGE_SIZE rows, for every table and parameter combination (including
\* /api/routes/list and /api/stops/list with route_id), and the bound is
\* part of the executed query: its statement has a LIMIT of at most
\* MAX_PAGE_SIZE.
C14_PageSizeBoundInQuery ==
    \A i \in DOMAIN reqs :
        PagedRequest(i) =>
            /\ Len(reqs[i].response.rows) <= MAX_PAGE_SIZE
            /\ \A k \in 1..Len(reqs[i].executed) :
                  /\ "limit" \in DOMAIN reqs[i].executed[k].params
                  /\ reqs[i].executed[k].params["limit"] >= 0
                  /\ reqs[i].executed[k].params["limit"] <= MAX_PAGE_SIZE

\* the query string with the values of two parameters exchanged
Swapped(args, p, q) == [args EXCEPT ![p] = args[q], ![q] = args[p]]

\* C15: the bounding box of locate is normalized, north above south and east
\* beyond west whatever the order of the inputs: a locate request with the
\* two latitude edges, or the two longitude edges, swapped returns the same
\* rows as the request with the edges in the right order.
C15_BoundsNormalized ==
    \A i \in DOMAIN reqs :
        (LocateOfStops(i) /\ EdgesGiven(reqs[i].args)) =>
            /\ reqs[i].response.rows
                 = route_stops_locate(Swapped(reqs[i].args, "high_lat", "low_lat"),
                                      db).response.rows
            /\ reqs[i].response.rows
                 = route_stops_locate(Swapped(reqs[i].args, "high_lon", "low_lon"),
                                      db).response.rows

-----------------------------------------------------------------------------
(* Further properties of the importer *)

\* the import was aborted by an error raised while loading a table
AbortedWhileLoading ==
    pc = "exited" /\ raised \notin {"none", "FileNotFoundError"}

\* table t is fully recreated and loaded from the archive
LoadedFromArchive(store, t) ==
    IF archive.status = "ok" /\ TableFile(t) \in archive.names
    THEN LET r == insert_gtfs_table_rows(archive.files[TableFile(t)],
                                         NewTable(CreateSqlOf(t)))
         IN  r.error = "none" /\ store.tables[t] = r.table
    ELSE store.tables[t] = NewTable(CreateSqlOf(t))

\* C16: if the import aborts with an error while loading some table, then in
\* the store left behind every table is either fully recreated and loaded
\* from this archive or exactly as it was before the import started; none is
\* left dropped, recreated empty or partially loaded.
C16_AbortIsPerTableTransactional ==
    AbortedWhileLoading =>
        \A t \in TableNames :
            db.tables[t] = db0.tables[t] \/ LoadedFromArchive(db, t)

\* the indexes of the registry before position k
IndexesBefore(k) == {SQL_LIST_CREATE_INDEXES[j] : j \in 1..(k - 1)}

\* the tables the loop over gtfs_table_pairs has recreated so far
Recreated ==
    {gtfs_table_pairs[j][1] : j \in 1..(IF pc = "create_table" THEN tableIdx - 1 ELSE tableIdx)}

\* C17: index creation runs once per import, after all fifteen tables have
\* been created and loaded (no index is on a table while the tables are
\* loaded; at the k-th index the connection sees every table loaded and
\* exactly the first k-1 indexes, so no CREATE INDEX meets its own name), and
\* a second run on the same archive and store ends in the store state the
\* first run left (tables, rows and indexes).
C17_IndexesOnceAndImportIdempotent ==
    /\ pc \in {"create_table", "insert_rows"} =>
            \A ix \in conn.view.indexes : ix.table \notin Recreated
    /\ pc = "create_index" =>
            /\ \A t \in TableNames : LoadedFromArchive(conn.view, t)
            /\ conn.view.indexes = IndexesBefore(tableIdx)
    /\ (pc = "exited" /\ run = 2) => db = db0
    /\ (pc = "exited" /\ result = 0) => db.indexes = Range(SQL_LIST_CREATE_INDEXES)

\* a second run of a successful import has ended: the store has rows and the
\* four indexes
C17_Witness ==
    /\ pc = "exited" /\ run = 2 /\ result = 0 /\ raised = "none"
    /\ db0.indexes = Range(SQL_LIST_CREATE_INDEXES)
    /\ \A t \in MandatoryTables : db.tables[t].rows # <<>>

-----------------------------------------------------------------------------
(* Further properties of the server *)

\* the messages of APIError and ParamError
ApiErrors ==
    {NO_TABLE, NO_VERB, INVALID_PARAM}
        \cup {NO_PARAM(p) : p \in {"high_lat", "low_lat", "high_lon", "low_lon"}}

\* C18: a request that ends in a 'Table does not exist', 'Verb not
\* supported', 'Missing required parameter' or 'Invalid parameter value'
\* error executed no SQL statement: the table check, the verb check and all
\* parameter checks precede the first executed statement.
C18_ErrorsPrecedeStatements ==
    \A i \in DOMAIN reqs :
        (Answered(i) /\ reqs[i].response.kind = "error") =>
            /\ reqs[i].response.error \in ApiErrors
            /\ reqs[i].executed = <<>>
            /\ db = db0

\* a list request for a table that declares the verb was refused for the
\* value of count or page
C18_Witness ==
    \E i \in DOMAIN reqs :
        /\ Answered(i)
        /\ reqs[i].verb = "list" /\ reqs[i].table \in TABLES
        /\ "list" \in VERBS[reqs[i].table]
        /\ reqs[i].response = handle_error(INVALID_PARAM)
        /\ reqs[i].executed = <<>>

\* the view function of request i is running or has returned or raised, and
\* the request has not ended
InHandler(i) == reqs[i].pc \in {"dispatch", "responded"}

\* C19: under any interleaving of concurrent requests, every request has
\* opened its own connection before its handler runs, the connection stays
\* open until the request ends and is closed when it has ended, whatever the
\* handler returned or raised; no connection belongs to two requests and none
\* is open without an unfinished request that holds it.
C19_OneConnectionPerRequest ==
    /\ \A i \in DOMAIN reqs :
          /\ reqs[i].pc = "received" => reqs[i].g_db = 0
          /\ InHandler(i) =>
                /\ reqs[i].g_db \in DOMAIN connections
                /\ connections[reqs[i].g_db] = "open"
          /\ reqs[i].pc = "done" =>
                /\ reqs[i].g_db \in DOMAIN connections
                /\ connections[reqs[i].g_db] = "closed"
    /\ \A i, j \in DOMAIN reqs :
          (i # j /\ reqs[i].g_db # 0) => reqs[i].g_db # reqs[j].g_db
    /\ \A k \in DOMAIN connections :
          connections[k] = "open" =>
              \E i \in DOMAIN reqs : reqs[i].g_db = k /\ InHandler(i)

\* two requests were in their handlers at once, one of them stopped by an
\* exception the application does not handle, and the first to end has ended
C19_Witness ==
    \E i, j \in DOMAIN reqs :
        /\ i # j
        /\ reqs[i].pc = "done" /\ reqs[i].response.kind = "server_error"
        /\ reqs[j].pc = "responded" /\ reqs[j].g_db < reqs[i].g_db
        /\ connections[reqs[j].g_db] = "open"
        /\ connections[reqs[i].g_db] = "closed"

=============================================================================
